---- MODULE Spec2Model ----
(***************************************************************************)
(* Model of the Visual Behavior Analysis API (src/main.py) and of its key  *)
(* store (src/api_keys.py).                                                *)
(*                                                                         *)
(* Encodings.                                                              *)
(*   - A Python str is a sequence of one-character strings.                *)
(*   - An Optional value (None / a value) and a dict entry (absent /       *)
(*     present) is a sequence of length 0 or 1: <<>> or <<v>>.             *)
(*   - A float is an integer count of 10^-5 units (fixed point).           *)
(*   - bytes is a sequence of integers 0..255.                             *)
(*   - A raised exception is a record [type, ...]; an operator that can    *)
(*     raise returns [ok |-> TRUE, val |-> v] or [ok |-> FALSE, exc |-> e] *)
(***************************************************************************)
EXTENDS Integers, Sequences, FiniteSets, TLC

VARIABLES
    env,            \* os.environ: [primary, fallback], each Optional str
    _key_manager,   \* api_keys._key_manager: Optional instance
    key_manager,    \* main.key_manager: the instance main.py holds
    constructed,    \* number of ProductionAPIKeyManager() constructions so far
    pc,             \* position of the request in flight
    req,            \* the request in flight: [endpoint, header, body]
    api_key,        \* what Depends(verify_api_key) handed the endpoint: Optional str
    outcome,        \* what analyzer.process_frame did for this request: Optional
    resp,           \* the reply: [status, detail, body]
    decode_calls,   \* calls of decode_image / decode_base64_image for this request
    analyzer_calls, \* calls of analyzer.process_frame for this request
    b64_fed         \* the texts handed to base64.b64decode for this request

vars == <<env, _key_manager, key_manager, constructed, pc, req, api_key,
          outcome, resp, decode_calls, analyzer_calls, b64_fed>>

(***************************************************************************)
(* Bounds of the model.                                                    *)
(***************************************************************************)
MaxKeyLen == 2      \* longest primary key / X-API-Key header explored
MaxFbLen == 3       \* longest FALLBACK_API_KEYS string explored
MaxSegs == 3        \* most comma-separated segments of a base64 text
ConfWindow == 3     \* confidences 0.3 +- k * 0.0002, k <= ConfWindow
MaxTime == 2        \* time.time() returns one of 1..MaxTime seconds
MaxInstances == 3   \* get_key_manager() stops being called after this many constructions

(***************************************************************************)
(* Optional values and Python truthiness.                                  *)
(***************************************************************************)
None == <<>>
Some(v) == <<v>>
IsNone(o) == Len(o) = 0
Val(o) == o[1]
Get(o, default) == IF IsNone(o) THEN default ELSE Val(o)

\* `not s` for an Optional[str]: None and "" are both falsy.
Falsy(o) == IsNone(o) \/ Len(Val(o)) = 0

Strs(chars, n) == UNION {[1..k -> chars] : k \in 0..n}
OptStrs(chars, n) == {None} \cup {Some(s) : s \in Strs(chars, n)}

(***************************************************************************)
(* str.split(",") and str.strip()                                          *)
(***************************************************************************)
Whitespace == {" ", "\t", "\n", "\r"}

RECURSIVE Split(_, _)
\* s.split(sep): the maximal sep-free pieces, in order; "" gives [""].
Split(s, sep) ==
    IF \A i \in 1..Len(s) : s[i] # sep
    THEN <<s>>
    ELSE LET i == CHOOSE k \in 1..Len(s) :
                      s[k] = sep /\ \A j \in 1..(k - 1) : s[j] # sep
         IN  <<SubSeq(s, 1, i - 1)>> \o Split(SubSeq(s, i + 1, Len(s)), sep)

RECURSIVE LStrip(_)
LStrip(s) ==
    IF Len(s) > 0 /\ s[1] \in Whitespace THEN LStrip(Tail(s)) ELSE s

RECURSIVE RStrip(_)
RStrip(s) ==
    IF Len(s) > 0 /\ s[Len(s)] \in Whitespace
    THEN RStrip(SubSeq(s, 1, Len(s) - 1))
    ELSE s

Strip(s) == RStrip(LStrip(s))

RECURSIVE StripNonEmpty(_)
\* [key.strip() for key in items if key.strip()]
StripNonEmpty(items) ==
    IF Len(items) = 0 THEN <<>>
    ELSE LET k == Strip(Head(items))
         IN  (IF Len(k) > 0 THEN <<k>> ELSE <<>>) \o StripNonEmpty(Tail(items))

RECURSIVE KeepNonBlank(_)
\* the list comprehension with key.strip() forgotten in the element
KeepNonBlank(items) ==
    IF Len(items) = 0 THEN <<>>
    ELSE (IF Len(Strip(Head(items))) > 0 THEN <<Head(items)>> ELSE <<>>)
         \o KeepNonBlank(Tail(items))

(***************************************************************************)
(* api_keys.py: ProductionAPIKeyManager and get_key_manager                *)
(***************************************************************************)
ProductionAPIKeyManager_Unstripped(e, id) ==
    LET fallback_keys == KeepNonBlank(Split(Get(e.fallback, <<>>), ","))
    IN  [id |-> id,
         primary_key |-> e.primary,
         fallback_keys |-> fallback_keys,
         valid_keys |-> (IF Falsy(e.primary) THEN <<>> ELSE <<Val(e.primary)>>)
                        \o fallback_keys]

\* __init__: instance number id built from environment e
ProductionAPIKeyManager(e, id) ==
    LET fallback_keys == StripNonEmpty(Split(Get(e.fallback, <<>>), ","))
    IN  [id |-> id,
         primary_key |-> e.primary,
         fallback_keys |-> fallback_keys,
         valid_keys |-> (IF Falsy(e.primary) THEN <<>> ELSE <<Val(e.primary)>>)
                        \o fallback_keys]

\* validate_key(api_key), api_key an Optional str
validate_key(km, k) ==
    IF Falsy(k) THEN FALSE
    ELSE \E i \in 1..Len(km.valid_keys) : km.valid_keys[i] = Val(k)

get_primary_key(km) == km.primary_key

has_valid_keys(km) == Len(km.valid_keys) > 0

get_key_count(km) == Len(km.valid_keys)

get_key_manager_Always(g, e, n) ==
    [global |-> Some(ProductionAPIKeyManager(e, n + 1)),
     inst |-> ProductionAPIKeyManager(e, n + 1),
     constructed |-> n + 1]

\* get_key_manager(): g is the module global, n the constructions so far
get_key_manager(g, e, n) ==
    IF IsNone(g)
    THEN [global |-> Some(ProductionAPIKeyManager(e, n + 1)),
          inst |-> ProductionAPIKeyManager(e, n + 1),
          constructed |-> n + 1]
    ELSE [global |-> g, inst |-> Val(g), constructed |-> n]

(***************************************************************************)
(* Exceptions                                                              *)
(***************************************************************************)
Ok(v) == [ok |-> TRUE, val |-> v]
Raise(e) == [ok |-> FALSE, exc |-> e]

\* fastapi.HTTPException(status_code, detail); detail is a sequence of text pieces
HTTPException(status_code, detail) ==
    [type |-> "HTTPException", status_code |-> status_code, detail |-> detail]

\* any other Exception, carrying its message
Exception(msg) == [type |-> "Exception", status_code |-> 0, detail |-> <<msg>>]

\* str(e): starlette's HTTPException prints "<status_code>: <detail>"
Str(e) ==
    IF e.type = "HTTPException"
    THEN <<ToString(e.status_code), ": ">> \o e.detail
    ELSE e.detail

(***************************************************************************)
(* main.py: verify_api_key                                                 *)
(***************************************************************************)
MsgKeyRequired == "API key required. Please provide X-API-Key header."
MsgKeyInvalid == "Invalid or expired API key."

verify_api_key_NoneOnly(km, header) ==
    IF IsNone(header)
    THEN Raise(HTTPException(401, <<MsgKeyRequired>>))
    ELSE IF ~validate_key(km, header)
         THEN Raise(HTTPException(401, <<MsgKeyInvalid>>))
         ELSE Ok(Val(header))

verify_api_key_NoValidate(km, header) ==
    IF Falsy(header)
    THEN Raise(HTTPException(401, <<MsgKeyRequired>>))
    ELSE Ok(Val(header))

\* header is what APIKeyHeader(auto_error=False) extracts: None when absent
verify_api_key(km, header) ==
    IF Falsy(header)
    THEN Raise(HTTPException(401, <<MsgKeyRequired>>))
    ELSE IF ~validate_key(km, header)
         THEN Raise(HTTPException(401, <<MsgKeyInvalid>>))
         ELSE Ok(Val(header))

(***************************************************************************)
(* base64.b64decode(s) with validate=False (binascii.a2b_base64)           *)
(***************************************************************************)
B64Alphabet == <<
    "A", "B", "C", "D", "E", "F", "G", "H", "I", "J", "K", "L", "M", "N", "O", "P",
    "Q", "R", "S", "T", "U", "V", "W", "X", "Y", "Z", "a", "b", "c", "d", "e", "f",
    "g", "h", "i", "j", "k", "l", "m", "n", "o", "p", "q", "r", "s", "t", "u", "v",
    "w", "x", "y", "z", "0", "1", "2", "3", "4", "5", "6", "7", "8", "9", "+", "/">>

\* the 6-bit value of c, or 64 when c is not in the alphabet
B64Value(c) ==
    IF \E i \in 1..Len(B64Alphabet) : B64Alphabet[i] = c
    THEN (CHOOSE i \in 1..Len(B64Alphabet) : B64Alphabet[i] = c) - 1
    ELSE 64

MsgPadding == "Incorrect padding"
MsgOneMore == "Invalid base64-encoded string: number of data characters cannot be 1 more than a multiple of 4"

RECURSIVE a2b_base64(_, _, _, _, _)
\* s: the characters left; quad_pos, leftchar, pads: the decoder's registers
a2b_base64(s, quad_pos, leftchar, pads, out) ==
    IF Len(s) = 0
    THEN IF quad_pos = 0 THEN Ok(out)
         ELSE IF quad_pos = 1 THEN Raise(Exception(MsgOneMore))
         ELSE Raise(Exception(MsgPadding))
    ELSE LET c == Head(s)
             v == B64Value(c)
         IN  IF c = "="
             THEN IF quad_pos >= 2 /\ quad_pos + pads + 1 >= 4
                  THEN Ok(out)
                  ELSE a2b_base64(Tail(s), quad_pos, leftchar,
                                  IF quad_pos >= 2 THEN pads + 1 ELSE pads, out)
             ELSE IF v = 64
             THEN a2b_base64(Tail(s), quad_pos, leftchar, pads, out)
             ELSE CASE quad_pos = 0 ->
                         a2b_base64(Tail(s), 1, v, 0, out)
                    [] quad_pos = 1 ->
                         a2b_base64(Tail(s), 2, v % 16, 0,
                                    Append(out, leftchar * 4 + v \div 16))
                    [] quad_pos = 2 ->
                         a2b_base64(Tail(s), 3, v % 4, 0,
                                    Append(out, leftchar * 16 + v \div 4))
                    [] OTHER ->
                         a2b_base64(Tail(s), 0, 0, 0,
                                    Append(out, leftchar * 64 + v))

b64decode(s) == a2b_base64(s, 0, 0, 0, <<>>)

(***************************************************************************)
(* PIL.Image.open / convert('RGB') / numpy / cv2.cvtColor, on a miniature  *)
(* image format: the two magic bytes "BM", a mode byte (0: RGB, three      *)
(* bytes per pixel; 1: L, one byte per pixel), then at least one pixel.    *)
(***************************************************************************)
ImageMagic == <<66, 77>>
MsgUnidentified == "cannot identify image file"

\* Image.open(io.BytesIO(image_data)): [mode, data] or UnidentifiedImageError
Image_open(image_data) ==
    IF /\ Len(image_data) > 3
       /\ SubSeq(image_data, 1, 2) = ImageMagic
       /\ \/ image_data[3] = 0 /\ (Len(image_data) - 3) % 3 = 0
          \/ image_data[3] = 1
    THEN Ok([mode |-> IF image_data[3] = 0 THEN "RGB" ELSE "L",
             data |-> SubSeq(image_data, 4, Len(image_data))])
    ELSE Raise(Exception(MsgUnidentified))

\* image.convert('RGB') then np.array(image): a sequence of <<r, g, b>>
ToRGB(image) ==
    IF image.mode # "RGB"
    THEN [i \in 1..Len(image.data) |->
              <<image.data[i], image.data[i], image.data[i]>>]
    ELSE [i \in 1..(Len(image.data) \div 3) |->
              <<image.data[3 * i - 2], image.data[3 * i - 1], image.data[3 * i]>>]

\* cv2.cvtColor(frame, cv2.COLOR_RGB2BGR)
cvtColor_RGB2BGR(frame) ==
    [i \in 1..Len(frame) |-> <<frame[i][3], frame[i][2], frame[i][1]>>]

\* decode_image(image_data)
decode_image(image_data) ==
    LET image == Image_open(image_data)
    IN  IF image.ok
        THEN Ok(cvtColor_RGB2BGR(ToRGB(image.val)))
        ELSE Raise(HTTPException(400, <<"Invalid image format: ">> \o Str(image.exc)))

HasComma(s) == \E i \in 1..Len(s) : s[i] = ","

\* the text decode_base64_image hands to base64.b64decode
SplitPrefix(base64_string) ==
    IF HasComma(base64_string)
    THEN Split(base64_string, ",")[2]
    ELSE base64_string

\* decode_base64_image(base64_string)
decode_base64_image(base64_string) ==
    LET image_data == b64decode(SplitPrefix(base64_string))
    IN  IF ~image_data.ok
        THEN Raise(HTTPException(400, <<"Invalid base64 image: ">> \o Str(image_data.exc)))
        ELSE LET frame == decode_image(image_data.val)
             IN  IF frame.ok THEN frame
                 ELSE Raise(HTTPException(400,
                                <<"Invalid base64 image: ">> \o Str(frame.exc)))

(***************************************************************************)
(* Fixed-point numbers and Python's round(x, ndigits)                      *)
(***************************************************************************)
Unit == 10 ^ 5                  \* 1.0

\* round(x, ndigits), ties to even, for ndigits <= 5
Round(x, ndigits) ==
    LET step == Unit \div (10 ^ ndigits)
        q == x \div step        \* floor
        r == x % step           \* 0 .. step - 1
    IN  IF 2 * r < step THEN q * step
        ELSE IF 2 * r > step THEN (q + 1) * step
        ELSE IF q % 2 = 0 THEN q * step ELSE (q + 1) * step

(***************************************************************************)
(* main.py: the response built from the analyzer's result dictionary       *)
(***************************************************************************)
ConfThreshold == 30000          \* 0.3

MetricNames == {"attention_percent", "head_movement_normalized",
                "shoulder_tilt_deg", "hand_activity_normalized"}

\* {}: no metric reported
EmptyMetrics == [n \in MetricNames |-> None]

\* round(metrics.get(n), nd) if metrics.get(n) is not None else None
RoundMetric(metrics, n, nd) ==
    IF ~IsNone(metrics[n]) THEN Some(Round(Val(metrics[n]), nd)) ELSE None

\* the same with the truthiness test `if metrics.get(n)`
RoundMetricTruthy(metrics, n, nd) ==
    IF ~IsNone(metrics[n]) /\ Val(metrics[n]) # 0
    THEN Some(Round(Val(metrics[n]), nd))
    ELSE None

FrameAnalysisResponse_Truthy(result, now) ==
    LET metrics == Get(result.metrics, EmptyMetrics)
        frame_confidence == Get(result.frame_confidence, 0)
        confidence_status ==
            IF frame_confidence >= ConfThreshold THEN "PASS" ELSE "FAIL"
        hands_detected ==
            Get(Get(result.detection_results,
                    [hands_detected_count |-> None]).hands_detected_count, 0)
    IN  [frame |-> Get(result.frame_count, 0),
         frame_confidence |-> Round(frame_confidence, 3),
         confidence_status |-> confidence_status,
         attention |-> RoundMetricTruthy(metrics, "attention_percent", 1),
         head_movement |-> RoundMetricTruthy(metrics, "head_movement_normalized", 4),
         shoulder_tilt |-> RoundMetricTruthy(metrics, "shoulder_tilt_deg", 1),
         hand_activity |-> RoundMetricTruthy(metrics, "hand_activity_normalized", 4),
         hands_detected |-> hands_detected,
         timestamp |-> Get(result.timestamp, now),
         success |-> TRUE,
         warnings |-> Get(result.warnings, <<>>)]

FrameAnalysisResponse_Strict(result, now) ==
    LET metrics == Get(result.metrics, EmptyMetrics)
        frame_confidence == Get(result.frame_confidence, 0)
        confidence_status ==
            IF frame_confidence > ConfThreshold THEN "PASS" ELSE "FAIL"
        hands_detected ==
            Get(Get(result.detection_results,
                    [hands_detected_count |-> None]).hands_detected_count, 0)
    IN  [frame |-> Get(result.frame_count, 0),
         frame_confidence |-> Round(frame_confidence, 3),
         confidence_status |-> confidence_status,
         attention |-> RoundMetric(metrics, "attention_percent", 1),
         head_movement |-> RoundMetric(metrics, "head_movement_normalized", 4),
         shoulder_tilt |-> RoundMetric(metrics, "shoulder_tilt_deg", 1),
         hand_activity |-> RoundMetric(metrics, "hand_activity_normalized", 4),
         hands_detected |-> hands_detected,
         timestamp |-> Get(result.timestamp, now),
         success |-> TRUE,
         warnings |-> Get(result.warnings, <<>>)]

\* main.py 180-203 (and its copy 234-257): result is what process_frame
\* returned, now is time.time()
FrameAnalysisResponse(result, now) ==
    LET metrics == Get(result.metrics, EmptyMetrics)
        frame_confidence == Get(result.frame_confidence, 0)
        confidence_status ==
            IF frame_confidence >= ConfThreshold THEN "PASS" ELSE "FAIL"
        hands_detected ==
            Get(Get(result.detection_results,
                    [hands_detected_count |-> None]).hands_detected_count, 0)
    IN  [frame |-> Get(result.frame_count, 0),
         frame_confidence |-> Round(frame_confidence, 3),
         confidence_status |-> confidence_status,
         attention |-> RoundMetric(metrics, "attention_percent", 1),
         head_movement |-> RoundMetric(metrics, "head_movement_normalized", 4),
         shoulder_tilt |-> RoundMetric(metrics, "shoulder_tilt_deg", 1),
         hand_activity |-> RoundMetric(metrics, "hand_activity_normalized", 4),
         hands_detected |-> hands_detected,
         timestamp |-> Get(result.timestamp, now),
         success |-> TRUE,
         warnings |-> Get(result.warnings, <<>>)]

(***************************************************************************)
(* Replies                                                                 *)
(***************************************************************************)
NoResp == [status |-> 0, detail |-> <<>>, body |-> None]

\* a handler returned body: 200
Reply(body) == [status |-> 200, detail |-> <<>>, body |-> Some(body)]

\* FastAPI's handler for a raised HTTPException
ErrorReply(e) == [status |-> e.status_code, detail |-> e.detail, body |-> None]

MsgProcessing == "Error processing frame: "
MsgMissingImage == "Missing 'image' field in request"

\* except Exception as e: raise HTTPException(500, f"Error processing frame: {str(e)}")
ExceptException(e) == HTTPException(500, <<MsgProcessing>> \o Str(e))

\* except HTTPException: raise, then except Exception as above
ExceptHTTPException(e) ==
    IF e.type = "HTTPException" THEN e ELSE ExceptException(e)

\* no except clause: FastAPI answers an unhandled exception itself
Unhandled(e) ==
    IF e.type = "HTTPException" THEN e
    ELSE HTTPException(500, <<"Internal Server Error">>)

\* analyzer.process_frame(frame): out is what the analyzer does with the frame
process_frame(frame, out) ==
    IF out.raised THEN Raise(Exception(out.msg)) ELSE Ok(out.result)

\* the try block of analyze_frame, lines 171-205
TryAnalyzeFrame(image_data, out, now) ==
    LET frame == decode_image(image_data)
    IN  IF ~frame.ok
        THEN [res |-> frame, decode_calls |-> 1, analyzer_calls |-> 0,
              b64_fed |-> <<>>]
        ELSE LET result == process_frame(frame.val, out)
             IN  [res |-> IF result.ok
                          THEN Ok(FrameAnalysisResponse(result.val, now))
                          ELSE result,
                  decode_calls |-> 1, analyzer_calls |-> 1, b64_fed |-> <<>>]

\* the try block of analyze_base64_frame, lines 223-259
TryAnalyzeBase64Frame(request, out, now) ==
    LET base64_string == request.image
    IN  IF Falsy(base64_string)
        THEN [res |-> Raise(HTTPException(400, <<MsgMissingImage>>)),
              decode_calls |-> 0, analyzer_calls |-> 0, b64_fed |-> <<>>]
        ELSE LET frame == decode_base64_image(Val(base64_string))
                 fed == <<SplitPrefix(Val(base64_string))>>
             IN  IF ~frame.ok
                 THEN [res |-> frame, decode_calls |-> 1, analyzer_calls |-> 0,
                       b64_fed |-> fed]
                 ELSE LET result == process_frame(frame.val, out)
                      IN  [res |-> IF result.ok
                                   THEN Ok(FrameAnalysisResponse(result.val, now))
                                   ELSE result,
                           decode_calls |-> 1, analyzer_calls |-> 1,
                           b64_fed |-> fed]

Finish(t, reply) == [resp |-> reply,
                     decode_calls |-> t.decode_calls,
                     analyzer_calls |-> t.analyzer_calls,
                     b64_fed |-> t.b64_fed]

analyze_frame_Unhandled(image_data, out, now) ==
    LET t == TryAnalyzeFrame(image_data, out, now)
    IN  IF t.res.ok THEN Finish(t, Reply(t.res.val))
        ELSE Finish(t, ErrorReply(Unhandled(t.res.exc)))

\* analyze_frame, lines 170-208
analyze_frame(image_data, out, now) ==
    LET t == TryAnalyzeFrame(image_data, out, now)
    IN  IF t.res.ok THEN Finish(t, Reply(t.res.val))
        ELSE Finish(t, ErrorReply(ExceptException(t.res.exc)))

analyze_base64_frame_CatchAll(request, out, now) ==
    LET t == TryAnalyzeBase64Frame(request, out, now)
    IN  IF t.res.ok THEN Finish(t, Reply(t.res.val))
        ELSE Finish(t, ErrorReply(ExceptException(t.res.exc)))

\* analyze_base64_frame, lines 222-264
analyze_base64_frame(request, out, now) ==
    LET t == TryAnalyzeBase64Frame(request, out, now)
    IN  IF t.res.ok THEN Finish(t, Reply(t.res.val))
        ELSE Finish(t, ErrorReply(ExceptHTTPException(t.res.exc)))

\* root / health_check
health_check(now) ==
    [status |-> "healthy", analyzer_ready |-> TRUE, timestamp |-> now]

\* get_api_key_status
get_api_key_status(km) ==
    [keys_configured |-> has_valid_keys(km),
     key_count |-> get_key_count(km),
     primary_key_set |-> ~IsNone(get_primary_key(km)),
     message |-> IF has_valid_keys(km)
                 THEN "API keys are loaded from environment variables"
                 ELSE "No API keys configured in environment"]

(***************************************************************************)
(* Inputs explored                                                         *)
(***************************************************************************)
KeyChars == {"a", " ", ","}

\* os.environ of the three deployments the request pipeline is explored under
SpecEnvs ==
    {[primary |-> None, fallback |-> None],
     [primary |-> Some(<<"a">>), fallback |-> Some(<<"b", ",", " ", "a", "b">>)],
     [primary |-> Some(<<>>), fallback |-> Some(<<" ", "a", " ", ",", ",">>)]}

KeyEnvs ==
    [primary : OptStrs(KeyChars, MaxKeyLen), fallback : OptStrs(KeyChars, MaxFbLen)]
    \cup SpecEnvs

DecodeEnvs == {[primary |-> Some(<<"a">>), fallback |-> None]}

SpecHeaders == {None, Some(<<>>), Some(<<"a">>), Some(<<"b">>), Some(<<"z">>)}
KeyHeaders == OptStrs(KeyChars, MaxKeyLen) \cup SpecHeaders
DecodeHeaders == {None, Some(<<"a">>)}

\* "BM", mode RGB, one pixel (1, 2, 3); and its base64 text
ImageBytes == <<66, 77, 0, 1, 2, 3>>
ImageText == <<"Q", "k", "0", "A", "A", "Q", "I", "D">>
ZerosText == <<"A", "A", "A", "A">>         \* three zero bytes: no image
PaddedText == <<"A", "A", "=", "=">>        \* one zero byte
OddText == <<"A">>                          \* not base64
SchemeText == <<"d", "a", "t", "a", ":">>   \* a data-URL scheme

Segs == {ImageText, ZerosText, PaddedText, OddText, SchemeText, <<>>}

RECURSIVE Texts(_)
\* up to n segments joined by commas
Texts(n) ==
    IF n <= 1 THEN Segs
    ELSE LET P == Texts(n - 1)
         IN  P \cup {t \o <<",">> \o s : t \in P, s \in Segs}

FrameFiles == {ImageBytes, <<66, 77, 1, 9>>, <<1, 2, 3>>, <<>>}

SpecJsons ==
    {[image |-> None], [image |-> Some(<<>>)], [image |-> Some(ImageText)],
     [image |-> Some(SchemeText \o <<",">> \o ImageText)],
     [image |-> Some(OddText)], [image |-> Some(ZerosText)]}

DecodeJsons == {[image |-> Some(t)] : t \in Texts(MaxSegs)}

Times == 1..MaxTime

Confidences ==
    {0, Unit \div 4, Unit}
    \cup {ConfThreshold + 20 * k : k \in (0 - ConfWindow)..ConfWindow}

MetricValue ==
    [attention_percent |-> 8746000, head_movement_normalized |-> 12346,
     shoulder_tilt_deg |-> 0 - 326000, hand_activity_normalized |-> 4]

\* every metric absent, reported as 0, or reported as its value
Metrics ==
    [attention_percent : {None, Some(0), Some(MetricValue.attention_percent)},
     head_movement_normalized :
         {None, Some(0), Some(MetricValue.head_movement_normalized)},
     shoulder_tilt_deg : {None, Some(0), Some(MetricValue.shoulder_tilt_deg)},
     hand_activity_normalized :
         {None, Some(0), Some(MetricValue.hand_activity_normalized)}]

FullResult ==
    [frame_count |-> Some(7), frame_confidence |-> Some(Unit \div 4),
     metrics |-> Some([n \in MetricNames |-> Some(MetricValue[n])]),
     detection_results |-> Some([hands_detected_count |-> Some(2)]),
     timestamp |-> Some(1000), warnings |-> Some(<<"low light">>)]

EmptyResult ==
    [frame_count |-> None, frame_confidence |-> None, metrics |-> None,
     detection_results |-> None, timestamp |-> None, warnings |-> None]

\* every subset of the fields (and of the metrics) absent
PresenceResults ==
    [frame_count : {None, FullResult.frame_count},
     frame_confidence : {None, FullResult.frame_confidence},
     metrics : {None} \cup {Some(m) : m \in
                   [MetricNames -> {None}] \cup
                   {[n \in MetricNames |-> IF n \in S THEN Some(MetricValue[n]) ELSE None]
                       : S \in SUBSET MetricNames}},
     detection_results : {None, Some([hands_detected_count |-> None]),
                          FullResult.detection_results},
     timestamp : {None, FullResult.timestamp},
     warnings : {None, FullResult.warnings}]

\* every confidence, alone and with every other field present
ConfidenceResults ==
    {[r EXCEPT !.frame_confidence = Some(c)] :
        r \in {EmptyResult, FullResult}, c \in Confidences}

\* every mix of absent, zero and non-zero metrics
MetricResults ==
    {[r EXCEPT !.metrics = Some(m)] : r \in {EmptyResult, FullResult}, m \in Metrics}

Results == PresenceResults \cup ConfidenceResults \cup MetricResults

Raises == [raised |-> TRUE, msg |-> "analyzer failure", result |-> EmptyResult]
Returns(r) == [raised |-> FALSE, msg |-> "", result |-> r]

AnalyzerOutcomes == {Raises} \cup {Returns(r) : r \in Results}
FewOutcomes == {Raises, Returns(EmptyResult)}

(***************************************************************************)
(* The state machine                                                       *)
(***************************************************************************)
NoReq == [endpoint |-> "", header |-> None, file |-> <<>>, json |-> [image |-> None]]

InitWith(E) ==
    /\ env \in E
    /\ LET r == get_key_manager(None, env, 0)     \* main.py line 45
       IN  /\ _key_manager = r.global
           /\ key_manager = r.inst
           /\ constructed = r.constructed
    /\ pc = "idle"
    /\ req = NoReq
    /\ api_key = None
    /\ outcome = None
    /\ resp = NoResp
    /\ decode_calls = 0
    /\ analyzer_calls = 0
    /\ b64_fed = <<>>

KeyStore == <<env, _key_manager, key_manager, constructed>>

Arrive(r) ==
    /\ pc \in {"idle", "done"}
    /\ req' = r
    /\ api_key' = None
    /\ outcome' = None
    /\ decode_calls' = 0
    /\ analyzer_calls' = 0
    /\ b64_fed' = <<>>
    /\ UNCHANGED KeyStore

\* POST /analyze/frame arrives
ReceiveFrame(H, F) ==
    \E h \in H, f \in F :
        /\ Arrive([endpoint |-> "frame", header |-> h, file |-> f,
                   json |-> [image |-> None]])
        /\ pc' = "received"
        /\ resp' = NoResp

\* POST /analyze/base64 arrives
ReceiveBase64(H, J) ==
    \E h \in H, j \in J :
        /\ Arrive([endpoint |-> "base64", header |-> h, file |-> <<>>, json |-> j])
        /\ pc' = "received"
        /\ resp' = NoResp

\* Depends(verify_api_key)
VerifyApiKey ==
    /\ pc = "received"
    /\ LET r == verify_api_key(key_manager, req.header)
       IN  /\ pc' = IF r.ok THEN "authorized" ELSE "done"
           /\ api_key' = IF r.ok THEN Some(r.val) ELSE None
           /\ resp' = IF r.ok THEN resp ELSE ErrorReply(r.exc)
    /\ UNCHANGED <<KeyStore, req, outcome, decode_calls, analyzer_calls, b64_fed>>

Handled(h, out) ==
    /\ resp' = h.resp
    /\ decode_calls' = decode_calls + h.decode_calls
    /\ analyzer_calls' = analyzer_calls + h.analyzer_calls
    /\ b64_fed' = b64_fed \o h.b64_fed
    /\ outcome' = IF h.analyzer_calls > 0 THEN Some(out) ELSE None
    /\ pc' = "done"
    /\ UNCHANGED <<KeyStore, req, api_key>>

AnalyzeFrame(outs) ==
    /\ pc = "authorized"
    /\ req.endpoint = "frame"
    /\ \E out \in outs, now \in Times :
           Handled(analyze_frame(req.file, out, now), out)

AnalyzeBase64Frame(outs) ==
    /\ pc = "authorized"
    /\ req.endpoint = "base64"
    /\ \E out \in outs, now \in Times :
           Handled(analyze_base64_frame(req.json, out, now), out)

\* GET /
Root ==
    \E now \in Times :
        /\ Arrive([NoReq EXCEPT !.endpoint = "root"])
        /\ resp' = Reply(health_check(now))
        /\ pc' = "done"

\* GET /health
HealthCheck ==
    \E now \in Times :
        /\ Arrive([NoReq EXCEPT !.endpoint = "health"])
        /\ resp' = Reply(health_check(now))
        /\ pc' = "done"

\* GET /api-key/status
GetApiKeyStatus ==
    /\ Arrive([NoReq EXCEPT !.endpoint = "status"])
    /\ resp' = Reply(get_api_key_status(key_manager))
    /\ pc' = "done"

\* a further call of api_keys.get_key_manager()
GetKeyManager ==
    /\ constructed < MaxInstances
    /\ LET r == get_key_manager(_key_manager, env, constructed)
       IN  /\ _key_manager' = r.global
           /\ constructed' = r.constructed
    /\ UNCHANGED <<env, key_manager, pc, req, api_key, outcome, resp,
                   decode_calls, analyzer_calls, b64_fed>>

Init == InitWith(SpecEnvs)

Next ==
    \/ ReceiveFrame(SpecHeaders, FrameFiles)
    \/ ReceiveBase64(SpecHeaders, SpecJsons)
    \/ VerifyApiKey
    \/ AnalyzeFrame(AnalyzerOutcomes)
    \/ AnalyzeBase64Frame(AnalyzerOutcomes)
    \/ Root
    \/ HealthCheck
    \/ GetApiKeyStatus
    \/ GetKeyManager

Spec == Init /\ [][Next]_vars

\* the key store and the authentication gate, over every small configuration
InitKeys == InitWith(KeyEnvs)

NextKeys ==
    \/ ReceiveFrame(KeyHeaders, {<<1, 2, 3>>})
    \/ ReceiveBase64(DecodeHeaders, {[image |-> None]})
    \/ VerifyApiKey
    \/ AnalyzeFrame(FewOutcomes)
    \/ AnalyzeBase64Frame(FewOutcomes)
    \/ GetApiKeyStatus
    \/ GetKeyManager

SpecKeys == InitKeys /\ [][NextKeys]_vars

\* the base64 endpoint over every text of up to MaxSegs segments
InitDecode == InitWith(DecodeEnvs)

NextDecode ==
    \/ ReceiveBase64(DecodeHeaders, DecodeJsons)
    \/ VerifyApiKey
    \/ AnalyzeBase64Frame(FewOutcomes)

SpecDecode == InitDecode /\ [][NextDecode]_vars

(***************************************************************************)
(* Properties                                                              *)
(***************************************************************************)
IsAnalyze == req.endpoint \in {"frame", "base64"}

\* Depends(verify_api_key) returned a key for the request in flight
Authenticated == ~IsNone(api_key)

\* what the Image Decoder does with the payload of the request in flight
Decoded ==
    IF req.endpoint = "frame"
    THEN decode_image(req.file)
    ELSE decode_base64_image(Get(req.json.image, <<>>))

\* the request carries a payload, and the Image Decoder rejects it
PayloadRejected ==
    /\ IsAnalyze
    /\ req.endpoint = "base64" => ~Falsy(req.json.image)
    /\ ~Decoded.ok

\* the request carries a payload, and the Image Decoder accepts it
PayloadDecodable ==
    /\ IsAnalyze
    /\ req.endpoint = "base64" => ~Falsy(req.json.image)
    /\ Decoded.ok

\* the handler returned a Frame Analysis Response
Succeeded == pc = "done" /\ IsAnalyze /\ resp.status = 200

\* C1: on both analyze endpoints, an authenticated request whose payload the
\* Image Decoder rejects ends in status 400 carrying the decoder's message,
\* never in status 500 and never in a success response.
C1_RejectedPayloadIs400 ==
    (pc = "done" /\ Authenticated /\ PayloadRejected) =>
        /\ resp.status = 400
        /\ resp.detail = Decoded.exc.detail
        /\ IsNone(resp.body)

\* the X-API-Key header is absent, empty, or not a valid key
HeaderRejected == Falsy(req.header) \/ ~validate_key(key_manager, req.header)

\* C2: the API-key check completes before any decoding or analysis: nothing
\* is decoded or analysed before it has run, and a request whose X-API-Key
\* header is absent, empty or not a valid key ends in a 401 with the decoder
\* and the analyzer never invoked for it.
C2_AuthBeforeWork ==
    /\ (IsAnalyze /\ pc = "received") =>
           decode_calls = 0 /\ analyzer_calls = 0 /\ b64_fed = <<>>
    /\ (IsAnalyze /\ HeaderRejected) =>
           /\ decode_calls = 0 /\ analyzer_calls = 0 /\ b64_fed = <<>>
           /\ IsNone(outcome)
           /\ pc # "authorized"
           /\ pc = "done" => resp.status = 401 /\ IsNone(resp.body)

\* an invalid key sent with a payload that would have decoded: 401, no work
C2_Witness ==
    /\ pc = "done" /\ PayloadDecodable
    /\ ~Falsy(req.header) /\ HeaderRejected
    /\ resp.status = 401 /\ decode_calls = 0 /\ analyzer_calls = 0

\* C3: verify_api_key puts every header value in exactly one of three
\* outcomes: absent or empty -> 401 "API key required. Please provide
\* X-API-Key header."; present but rejected by validate_key -> 401 "Invalid
\* or expired API key."; otherwise the key is returned and the endpoint body
\* runs. No header value yields another status or message.
C3_ThreeOutcomes ==
    (IsAnalyze /\ pc \in {"authorized", "done"}) =>
        IF Falsy(req.header)
        THEN /\ pc = "done" /\ api_key = None
             /\ resp = [status |-> 401, detail |-> <<MsgKeyRequired>>, body |-> None]
        ELSE IF ~validate_key(key_manager, req.header)
        THEN /\ pc = "done" /\ api_key = None
             /\ resp = [status |-> 401, detail |-> <<MsgKeyInvalid>>, body |-> None]
        ELSE /\ api_key = req.header
             /\ resp.status # 401
             /\ pc = "done" => decode_calls + analyzer_calls > 0 \/ resp.status = 400

\* a fallback key that is not the primary key is authorized
C3_Witness ==
    /\ pc = "authorized" /\ IsAnalyze /\ api_key = req.header
    /\ req.header # key_manager.primary_key
    /\ \E i \in 1..Len(key_manager.fallback_keys) :
           key_manager.fallback_keys[i] = Val(req.header)

\* s[i..j] is one of the comma-separated entries of s (possibly empty)
IsEntry(s, i, j) ==
    /\ i \in 1..(Len(s) + 1) /\ j \in 0..Len(s) /\ i <= j + 1
    /\ \A k \in i..j : s[k] # ","
    /\ i = 1 \/ s[i - 1] = ","
    /\ j = Len(s) \/ s[j + 1] = ","

Entries(s) ==
    {SubSeq(s, i, j) : <<i, j>> \in
        {p \in (1..(Len(s) + 1)) \X (0..Len(s)) : IsEntry(s, p[1], p[2])}}

\* c is entry with the whitespace around it removed, and is not empty
IsTrimOf(c, entry) ==
    /\ Len(c) > 0 /\ c[1] \notin Whitespace /\ c[Len(c)] \notin Whitespace
    /\ \E l \in 0..Len(entry) :
           /\ l + Len(c) <= Len(entry)
           /\ SubSeq(entry, l + 1, l + Len(c)) = c
           /\ \A k \in 1..Len(entry) :
                  (k <= l \/ k > l + Len(c)) => entry[k] \in Whitespace

IsPrimary(e, c) == ~IsNone(e.primary) /\ Val(c) = Val(e.primary)

\* C4, as claimed: validate is false for an empty or absent candidate, and
\* otherwise true exactly when the candidate equals the configured primary
\* key or one of the comma-separated fallback keys, empty strings excluded.
C4_ExactEntries ==
    req.endpoint # "" =>
        (validate_key(key_manager, req.header) <=>
            /\ ~Falsy(req.header)
            /\ \/ IsPrimary(env, req.header)
               \/ Val(req.header) \in Entries(Get(env.fallback, <<>>)))

\* the candidate is accepted according to the amended claim
TrimmedValid(e, c) ==
    /\ ~Falsy(c)
    /\ \/ IsPrimary(e, c)
       \/ \E entry \in Entries(Get(e.fallback, <<>>)) : IsTrimOf(Val(c), entry)

\* C4, amended: validate is false for an empty or absent candidate, and
\* otherwise true exactly when the candidate equals the primary key (as
\* configured, untrimmed) or one of the comma-separated fallback entries with
\* its surrounding whitespace removed, entries empty after trimming excluded;
\* every such candidate is authorized.
C4_TrimmedEntries ==
    /\ ~validate_key(key_manager, None)
    /\ ~validate_key(key_manager, Some(<<>>))
    /\ req.endpoint # "" =>
           (validate_key(key_manager, req.header) <=> TrimmedValid(env, req.header))
    /\ (IsAnalyze /\ pc \in {"authorized", "done"} /\ TrimmedValid(env, req.header)) =>
           api_key = req.header

\* a fallback entry written with whitespace around it: its trimmed form is
\* authorized though it is not literally one of the entries
C4_Witness ==
    /\ pc = "authorized" /\ api_key = req.header
    /\ ~IsPrimary(env, req.header)
    /\ Val(req.header) \notin Entries(Get(env.fallback, <<>>))

\* the confidence the analyzer reported for the request in flight (0.0 when absent)
RawConfidence == Get(Val(outcome).result.frame_confidence, 0)

\* C5, as claimed: in every Frame Analysis Response, confidence_status is
\* "PASS" iff the response's frame_confidence field (rounded to 3 decimals)
\* is >= 0.3, and "FAIL" otherwise.
C5_StatusFromRoundedField ==
    Succeeded =>
        Val(resp.body).confidence_status =
            IF Val(resp.body).frame_confidence >= ConfThreshold THEN "PASS" ELSE "FAIL"

\* C5, amended: confidence_status is "PASS" iff the confidence the analyzer
\* reported, before rounding (0.0 when absent), is >= 0.3, exactly 0.3 giving
\* "PASS"; the rounded frame_confidence field agrees with the status except
\* for reported values in [0.2995, 0.3), which show as 0.3 with "FAIL".
C5_StatusFromReportedValue ==
    Succeeded =>
        LET body == Val(resp.body)
        IN  /\ body.confidence_status =
                   IF RawConfidence >= ConfThreshold THEN "PASS" ELSE "FAIL"
            /\ body.confidence_status = "PASS" => body.frame_confidence >= ConfThreshold
            /\ (body.confidence_status = "FAIL" /\ body.frame_confidence >= ConfThreshold)
                   => /\ body.frame_confidence = ConfThreshold
                      /\ 2 * (ConfThreshold - RawConfidence) <= Unit \div 1000

\* a reported 0.2996 comes back as frame_confidence 0.3 with status FAIL
C5_Witness ==
    /\ Succeeded
    /\ RawConfidence = ConfThreshold - 40
    /\ Val(resp.body).frame_confidence = ConfThreshold
    /\ Val(resp.body).confidence_status = "FAIL"

\* the response field each metric of the analyzer's result is reported in
MetricField ==
    [attention_percent |-> "attention", head_movement_normalized |-> "head_movement",
     shoulder_tilt_deg |-> "shoulder_tilt", hand_activity_normalized |-> "hand_activity"]

\* C6: response building is total over absent fields: whatever subset of
\* frame_count, frame_confidence, metrics (or of its four entries),
\* detection_results, timestamp and warnings is absent from the analyzer's
\* result, the request succeeds with success = true; an absent metric
\* appears as null, a metric reported as 0 appears as 0, and absent
\* frame_count, frame_confidence and hands_detected_count default to 0,
\* 0.0 (status FAIL) and 0.
C6_TotalOverAbsentFields ==
    (pc = "done" /\ IsAnalyze /\ ~IsNone(outcome) /\ ~Val(outcome).raised) =>
        LET result == Val(outcome).result
        IN  /\ resp.status = 200
            /\ ~IsNone(resp.body)
            /\ Val(resp.body).success = TRUE
            /\ \A n \in MetricNames :
                   /\ (IsNone(result.metrics) \/ IsNone(Val(result.metrics)[n]))
                          => Val(resp.body)[MetricField[n]] = None
                   /\ (~IsNone(result.metrics) /\ Val(result.metrics)[n] = Some(0))
                          => Val(resp.body)[MetricField[n]] = Some(0)
            /\ IsNone(result.frame_count) => Val(resp.body).frame = 0
            /\ IsNone(result.frame_confidence) =>
                   /\ Val(resp.body).frame_confidence = 0
                   /\ Val(resp.body).confidence_status = "FAIL"
            /\ (\/ IsNone(result.detection_results)
                \/ IsNone(Val(result.detection_results).hands_detected_count))
                   => Val(resp.body).hands_detected = 0

\* only metrics present, one of them 0 and another absent
C6_Witness ==
    /\ Succeeded
    /\ IsNone(Val(outcome).result.frame_count)
    /\ IsNone(Val(outcome).result.frame_confidence)
    /\ IsNone(Val(outcome).result.detection_results)
    /\ ~IsNone(Val(outcome).result.metrics)
    /\ Val(Val(outcome).result.metrics).attention_percent = Some(0)
    /\ IsNone(Val(Val(outcome).result.metrics).head_movement_normalized)
    /\ Val(resp.body).attention = Some(0)
    /\ Val(resp.body).head_movement = None

\* C7: on both analyze endpoints, for an authenticated request with a
\* decodable payload the analyzer is invoked exactly once, and if it raises
\* the request ends in status 500 whose detail begins with "Error processing
\* frame:", with no retry and no success response.
C7_AnalyzerFailureIs500 ==
    /\ (pc = "done" /\ Authenticated /\ PayloadDecodable) =>
           analyzer_calls = 1 /\ ~IsNone(outcome)
    /\ (pc = "done" /\ IsAnalyze /\ ~IsNone(outcome) /\ Val(outcome).raised) =>
           /\ resp.status = 500
           /\ Len(resp.detail) > 0 /\ Head(resp.detail) = MsgProcessing
           /\ IsNone(resp.body)
           /\ analyzer_calls = 1

\* the analyzer raised on an uploaded frame
C7_Witness ==
    /\ pc = "done" /\ req.endpoint = "frame" /\ Authenticated /\ PayloadDecodable
    /\ ~IsNone(outcome) /\ Val(outcome).raised
    /\ resp.status = 500

\* C8: an authenticated POST /analyze/base64 whose JSON body lacks the
\* 'image' field ends in status 400 with detail exactly "Missing 'image'
\* field in request", and neither the base64 decoder nor the analyzer is
\* invoked for it.
C8_MissingImageIs400 ==
    (pc = "done" /\ req.endpoint = "base64" /\ Authenticated /\ IsNone(req.json.image)) =>
        /\ resp = [status |-> 400, detail |-> <<MsgMissingImage>>, body |-> None]
        /\ decode_calls = 0 /\ analyzer_calls = 0 /\ b64_fed = <<>>
        /\ IsNone(outcome)

\* {} was posted with a valid key
C8_Witness ==
    /\ pc = "done" /\ req.endpoint = "base64" /\ Authenticated
    /\ IsNone(req.json.image)
    /\ resp.status = 400

\* what is left of s after everything up to and including its first comma
AfterFirstComma(s) ==
    LET i == CHOOSE k \in 1..Len(s) : s[k] = "," /\ \A j \in 1..(k - 1) : s[j] # ","
    IN  SubSeq(s, i + 1, Len(s))

\* C9: for a text with at least one comma, decode_base64_image base64-decodes
\* exactly what remains after removing everything up to and including the
\* first comma (the whole remainder, further commas included); a text
\* without a comma is decoded whole.
C9_DecodesWholeRemainder ==
    (pc = "done" /\ req.endpoint = "base64" /\ decode_calls > 0) =>
        LET text == Val(req.json.image)
        IN  b64_fed = <<IF HasComma(text) THEN AfterFirstComma(text) ELSE text>>

\* C10: the key store is immutable after its initial load: no step of any
\* request changes the primary key, the fallback list or the valid-key list,
\* every call of get_key_manager returns the one instance built at start,
\* and the verdict of validate for a candidate never changes.
C10_KeyStoreImmutable ==
    [][/\ key_manager' = key_manager
       /\ key_manager'.primary_key = env.primary
       /\ _key_manager' = Some(key_manager)
       /\ constructed' = 1
       /\ env' = env
       /\ \A h \in SpecHeaders :
              validate_key(key_manager', h) = validate_key(key_manager, h)]_vars

\* a frame was analysed, and the store is the one built at start
C10_Witness ==
    /\ Succeeded
    /\ constructed = 1
    /\ _key_manager = Some(key_manager)
    /\ key_manager = ProductionAPIKeyManager(env, 1)

\* credential strings long enough to hold every key a configuration explored yields
Candidates == OptStrs(KeyChars, MaxFbLen) \cup SpecHeaders \cup {Some(<<"a", "b">>)}

\* GET /api-key/status has just been answered
StatusAnswered == pc = "done" /\ req.endpoint = "status" /\ resp.status = 200

\* C11: the fields of GET /api-key/status are consistent with the key store
\* for every configuration: keys_configured is true iff key_count > 0 iff some
\* credential string is accepted by validate, and primary_key_set = true
\* implies that the primary key is itself an accepted credential (hence
\* keys_configured = true and key_count >= 1).
C11_StatusConsistent ==
    StatusAnswered =>
        LET body == Val(resp.body)
        IN  /\ body.keys_configured <=> body.key_count > 0
            /\ body.keys_configured <=>
                   \E c \in Candidates : validate_key(key_manager, c)
            /\ body.primary_key_set =>
                   /\ validate_key(key_manager, env.primary)
                   /\ body.keys_configured
                   /\ body.key_count >= 1

====
